---- MODULE Spec2Model ----
(***************************************************************************)
(* File Sorter: the sorting engine (file_sorter/core.py) and its category  *)
(* map (file_sorter/config.py), modelled over an abstract directory tree.  *)
(*                                                                         *)
(* Text is a sequence of one-character strings, so that splitext, lower()  *)
(* and the "base_k.ext" renaming are computed as the code computes them.   *)
(* A path is the sequence of its components below the source directory;   *)
(* <<>> is the source directory itself.                                    *)
(***************************************************************************)
EXTENDS Integers, Sequences, FiniteSets, TLC

VARIABLES
  files,          \* regular files under the source directory: path -> [content, mtime]
  dirs,           \* directories under the source directory (the root <<>> included)
  denied,         \* paths at which the OS refuses create / delete / rename
  categories,     \* Config.categories, in dict insertion order
  create_subdirs, \* FileSorter.create_subdirs
  history,        \* FileSorter.history, the in-memory Operation Log
  persisted,      \* the content of history_file on disk
  event_queue,    \* watch mode: names of the created files whose event is not yet handled
  other,          \* a second FileSorter on the same history_file: built?, self.history, calls made
  last            \* observation of the most recent engine call

vars == <<files, dirs, denied, categories, create_subdirs, history, persisted,
          event_queue, other, last>>

(***************************************************************************)
(* Bounds                                                                  *)
(***************************************************************************)
MaxFiles == 3   \* files under the source directory when the engine is constructed
MaxCount == 2   \* largest count handed to undo_last_operation
MaxAdds == 2    \* add_category calls on one Config
MaxTree == 3    \* files in the watched tree
MaxCalls == 1   \* mutating calls the second engine makes

(***************************************************************************)
(* Text                                                                    *)
(***************************************************************************)
LowerTable ==
  ("A" :> "a") @@ ("B" :> "b") @@ ("C" :> "c") @@ ("D" :> "d") @@ ("E" :> "e") @@ ("F" :> "f") @@ ("G" :> "g")
  @@ ("H" :> "h") @@ ("I" :> "i") @@ ("J" :> "j") @@ ("K" :> "k") @@ ("L" :> "l") @@ ("M" :> "m") @@ ("N" :> "n")
  @@ ("O" :> "o") @@ ("P" :> "p") @@ ("Q" :> "q") @@ ("R" :> "r") @@ ("S" :> "s") @@ ("T" :> "t") @@ ("U" :> "u")
  @@ ("V" :> "v") @@ ("W" :> "w") @@ ("X" :> "x") @@ ("Y" :> "y") @@ ("Z" :> "z")

\* str.lower() on one character
LowerChar(c) == IF c \in DOMAIN LowerTable THEN LowerTable[c] ELSE c

\* str.lower()
Lower(t) == [i \in 1..Len(t) |-> LowerChar(t[i])]

Digits == <<"0", "1", "2", "3", "4", "5", "6", "7", "8", "9">>

RECURSIVE Str(_)
\* str(n) for n >= 0, as the f-string formats the counter
Str(n) == IF n < 10 THEN <<Digits[n + 1]>>
          ELSE Str(n \div 10) \o <<Digits[(n % 10) + 1]>>

\* zero-padded two digit field, as strftime("%m")
TwoDigits(n) == IF n < 10 THEN <<"0">> \o Str(n) ELSE Str(n)

\* mod_time.strftime("%Y-%m") on a modification time <<year, month>>
StrfYearMonth(mtime) == Str(mtime[1]) \o <<"-">> \o TwoDigits(mtime[2])

\* index of the last "." of t, 0 when there is none
LastDot(t) ==
  LET ds == {i \in 1..Len(t) : t[i] = "."}
  IN  IF ds = {} THEN 0 ELSE CHOOSE i \in ds : \A j \in ds : j <= i

\* os.path.splitext on one path component: the extension starts at the
\* last dot unless only dots precede it
splitext(t) ==
  LET d == LastDot(t)
  IN  IF d > 0 /\ \E i \in 1..(d - 1) : t[i] # "."
        THEN [base |-> SubSeq(t, 1, d - 1), ext |-> SubSeq(t, d, Len(t))]
        ELSE [base |-> t, ext |-> <<>>]

(***************************************************************************)
(* Category map (config.py)                                                *)
(***************************************************************************)
DEFAULT_CATEGORIES ==
  << [name |-> <<"V", "i", "d", "e", "o", "s">>,
      exts |-> << <<".", "m", "p", "4">>,
                 <<".", "m", "k", "v">>,
                 <<".", "a", "v", "i">>,
                 <<".", "m", "o", "v">>,
                 <<".", "w", "m", "v">>,
                 <<".", "f", "l", "v">>,
                 <<".", "w", "e", "b", "m">> >>],
     [name |-> <<"P", "i", "c", "t", "u", "r", "e", "s">>,
      exts |-> << <<".", "j", "p", "g">>,
                 <<".", "j", "p", "e", "g">>,
                 <<".", "p", "n", "g">>,
                 <<".", "g", "i", "f">>,
                 <<".", "b", "m", "p">>,
                 <<".", "s", "v", "g">>,
                 <<".", "i", "c", "o">>,
                 <<".", "t", "i", "f", "f">>,
                 <<".", "w", "e", "b", "p">> >>],
     [name |-> <<"M", "u", "s", "i", "c">>,
      exts |-> << <<".", "m", "p", "3">>,
                 <<".", "w", "a", "v">>,
                 <<".", "f", "l", "a", "c">>,
                 <<".", "a", "a", "c">>,
                 <<".", "o", "g", "g">>,
                 <<".", "m", "4", "a">>,
                 <<".", "w", "m", "a">> >>],
     [name |-> <<"D", "o", "c", "u", "m", "e", "n", "t", "s">>,
      exts |-> << <<".", "p", "d", "f">>,
                 <<".", "d", "o", "c", "x">>,
                 <<".", "t", "x", "t">>,
                 <<".", "p", "p", "t", "x">>,
                 <<".", "x", "l", "s", "x">>,
                 <<".", "d", "o", "c">>,
                 <<".", "x", "l", "s">>,
                 <<".", "p", "p", "t">>,
                 <<".", "o", "d", "t">>,
                 <<".", "r", "t", "f">> >>],
     [name |-> <<"A", "r", "c", "h", "i", "v", "e", "s">>,
      exts |-> << <<".", "z", "i", "p">>,
                 <<".", "r", "a", "r">>,
                 <<".", "7", "z">>,
                 <<".", "t", "a", "r">>,
                 <<".", "g", "z">>,
                 <<".", "b", "z", "2">>,
                 <<".", "x", "z">> >>],
     [name |-> <<"C", "o", "d", "e">>,
      exts |-> << <<".", "p", "y">>,
                 <<".", "j", "s">>,
                 <<".", "j", "a", "v", "a">>,
                 <<".", "c", "p", "p">>,
                 <<".", "c">>,
                 <<".", "h">>,
                 <<".", "c", "s">>,
                 <<".", "p", "h", "p">>,
                 <<".", "r", "b">>,
                 <<".", "g", "o">>,
                 <<".", "r", "s">>,
                 <<".", "h", "t", "m", "l">>,
                 <<".", "c", "s", "s">> >>],
     [name |-> <<"E", "x", "e", "c", "u", "t", "a", "b", "l", "e", "s">>,
      exts |-> << <<".", "e", "x", "e">>,
                 <<".", "m", "s", "i">>,
                 <<".", "a", "p", "p">>,
                 <<".", "d", "e", "b">>,
                 <<".", "r", "p", "m">>,
                 <<".", "d", "m", "g">> >>],
     [name |-> <<"S", "p", "r", "e", "a", "d", "s", "h", "e", "e", "t", "s">>,
      exts |-> << <<".", "c", "s", "v">>,
                 <<".", "x", "l", "s", "x">>,
                 <<".", "x", "l", "s">>,
                 <<".", "o", "d", "s">> >>] >>

None == <<>>

InSeq(x, sq) == \E i \in 1..Len(sq) : sq[i] = x

\* Config.get_category_for_extension: lower-case the query, first category
\* in iteration order that lists it
get_category_for_extension(cats, extension) ==
  LET e == Lower(extension)
      hits == {i \in 1..Len(cats) : InSeq(e, cats[i].exts)}
  IN  IF hits = {} THEN None
      ELSE cats[CHOOSE i \in hits : \A j \in hits : i <= j].name

\* the index of the key name in the dict, 0 when it is no key
KeyIndex(cats, name) ==
  IF \E i \in 1..Len(cats) : cats[i].name = name
    THEN CHOOSE i \in 1..Len(cats) : cats[i].name = name
    ELSE 0

\* Config.add_category: self.categories[category_name] = extensions; an
\* existing key keeps its place in the dict, a new key goes to the end
add_category(cats, category_name, extensions) ==
  IF KeyIndex(cats, category_name) # 0
    THEN [cats EXCEPT ![KeyIndex(cats, category_name)].exts = extensions]
    ELSE Append(cats, [name |-> category_name, exts |-> extensions])

\* Config.remove_category
remove_category(cats, category_name) ==
  IF KeyIndex(cats, category_name) # 0
    THEN SubSeq(cats, 1, KeyIndex(cats, category_name) - 1)
         \o SubSeq(cats, KeyIndex(cats, category_name) + 1, Len(cats))
    ELSE cats

RECURSIVE DictUpdate(_, _)
\* Config.load_config: self.categories.update(custom_config['categories'])
DictUpdate(cats, custom) ==
  IF custom = <<>> THEN cats
  ELSE DictUpdate(add_category(cats, custom[1].name, custom[1].exts), Tail(custom))

(***************************************************************************)
(* The directory tree and the OS calls the engine makes                    *)
(***************************************************************************)
Root == <<>>

Parent(p) == SubSeq(p, 1, Len(p) - 1)

\* os.path.basename
Basename(p) == p[Len(p)]

\* os.path.join(d, name)
Join(d, name) == Append(d, name)

Prefixes(p) == {SubSeq(p, 1, i) : i \in 0..Len(p)}

EmptyFiles == [p \in {} |-> 0]

Put(fl, p, node) == [q \in DOMAIN fl \cup {p} |-> IF q = p THEN node ELSE fl[q]]

Del(fl, p) == [q \in DOMAIN fl \ {p} |-> fl[q]]

\* os.path.exists
Exists(fl, ds, p) == p \in DOMAIN fl \/ p \in ds

\* os.path.isdir
IsDir(ds, p) == p \in ds

\* os.listdir(source_dir): the names of the direct children
ListDir(fl, ds) == {p[1] : p \in {q \in DOMAIN fl \cup ds : Len(q) = 1}}

Perms(S) ==
  {sq \in [1..Cardinality(S) -> S] : \A i, j \in 1..Cardinality(S) : sq[i] = sq[j] => i = j}

RECURSIVE SomeSeq(_)
SomeSeq(S) == IF S = {} THEN <<>>
              ELSE LET x == CHOOSE y \in S : TRUE IN <<x>> \o SomeSeq(S \ {x})

\* the orders in which os.listdir may return the children: the files in
\* any order; the loop skips a directory wherever it stands, so the
\* directories are listed after the files
Orders(fl, ds) ==
  LET names == ListDir(fl, ds)
      subdirs == {n \in names : <<n>> \in ds}
  IN  {sq \o SomeSeq(subdirs) : sq \in Perms(names \ subdirs)}

\* os.makedirs(d) / os.makedirs(d, exist_ok=True): creates the missing
\* ancestors top-down and raises OSError at the first one that is a file or
\* that the OS refuses to create
MakeDirs(fl, ds, dn, d) ==
  LET missing == {q \in Prefixes(d) : q \notin ds}
      bad == {q \in missing : q \in DOMAIN fl \/ q \in dn}
      stop == IF bad = {} THEN Len(d) + 1
              ELSE Len(CHOOSE q \in bad : \A r \in bad : Len(q) <= Len(r))
  IN  [ok |-> bad = {},
       dirs |-> ds \cup {q \in missing : Len(q) < stop}]

\* os.remove(p): deletes a regular file; raises OSError for a directory, a
\* missing path or a refusal of the OS
Remove(fl, ds, dn, p) ==
  IF p \in DOMAIN fl /\ p \notin dn
    THEN [ok |-> TRUE, files |-> Del(fl, p)]
    ELSE [ok |-> FALSE, files |-> fl]

\* shutil.move(src, dst) of a regular file: into dst when dst is a
\* directory (shutil.Error when the name is taken there), else a rename
\* that replaces whatever file is at dst; all or nothing
Move(fl, ds, dn, src, dst) ==
  LET real == IF dst \in ds THEN Join(dst, Basename(src)) ELSE dst
      ok == /\ src \in DOMAIN fl
            /\ src \notin dn
            /\ real \notin dn
            /\ Parent(real) \in ds
            /\ real \notin ds
            /\ (dst \in ds => real \notin DOMAIN fl)
  IN  [ok |-> ok,
       files |-> IF ok THEN Put(Del(fl, src), real, fl[src]) ELSE fl]

(***************************************************************************)
(* FileSorter (core.py)                                                    *)
(***************************************************************************)
HISTORY_BASENAME ==
  <<"f", "i", "l", "e", "_", "s", "o", "r", "t", "e", "r", "_",
    "h", "i", "s", "t", "o", "r", "y", ".", "j", "s", "o", "n">>

Strategies == {"skip", "rename", "replace"}

RECURSIVE EnsureFrom(_, _, _, _, _)
\* the loop of _ensure_directories_exist from category i on; an OSError of
\* os.makedirs leaves the loop
EnsureFrom(fl, ds, dn, cats, i) ==
  IF i > Len(cats) THEN [ok |-> TRUE, dirs |-> ds]
  ELSE LET folder_path == Join(Root, cats[i].name)
       IN  IF Exists(fl, ds, folder_path)
             THEN EnsureFrom(fl, ds, dn, cats, i + 1)
             ELSE LET m == MakeDirs(fl, ds, dn, folder_path)
                  IN  IF m.ok THEN EnsureFrom(fl, m.dirs, dn, cats, i + 1)
                      ELSE [ok |-> FALSE, dirs |-> m.dirs]

\* FileSorter._ensure_directories_exist
EnsureDirectoriesExist(fl, ds, dn, cats, subdirs) ==
  IF subdirs THEN EnsureFrom(fl, ds, dn, cats, 1)
  ELSE [ok |-> TRUE, dirs |-> ds]

\* f"{base}_{counter}{ext}" on the last component of the path
Renamed(dir, sp, counter) == Join(dir, sp.base \o <<"_">> \o Str(counter) \o sp.ext)

\* RenameProbe that takes the first candidate without looking
RenameProbe_Once(fl, ds, dir, sp, counter, destination) == Renamed(dir, sp, counter)

RECURSIVE RenameProbe(_, _, _, _, _, _)
\* the while loop of _handle_duplicate
RenameProbe(fl, ds, dir, sp, counter, destination) ==
  IF Exists(fl, ds, destination)
    THEN RenameProbe(fl, ds, dir, sp, counter + 1, Renamed(dir, sp, counter))
    ELSE destination

\* _handle_duplicate whose skip policy returns the taken path
HandleDuplicate_SkipOverwrites(fl, ds, dn, destination, duplicate_strategy) ==
  [kind |-> "path",
   dest |-> IF duplicate_strategy = "rename" /\ Exists(fl, ds, destination)
              THEN RenameProbe(fl, ds, Parent(destination),
                               splitext(Basename(destination)), 1, destination)
              ELSE destination,
   files |-> IF duplicate_strategy = "replace" /\ destination \in DOMAIN fl
               THEN Del(fl, destination) ELSE fl]

\* FileSorter._handle_duplicate: kind "path" returns dest, kind "none"
\* returns None, kind "raise" is the OSError of os.remove
HandleDuplicate(fl, ds, dn, destination, duplicate_strategy) ==
  IF ~Exists(fl, ds, destination)
    THEN [kind |-> "path", dest |-> destination, files |-> fl]
  ELSE IF duplicate_strategy = "skip"
    THEN [kind |-> "none", dest |-> destination, files |-> fl]
  ELSE IF duplicate_strategy = "replace"
    THEN LET r == Remove(fl, ds, dn, destination)
         IN  [kind |-> IF r.ok THEN "path" ELSE "raise",
              dest |-> destination, files |-> r.files]
  ELSE IF duplicate_strategy = "rename"
    THEN [kind |-> "path",
          dest |-> RenameProbe(fl, ds, Parent(destination),
                               splitext(Basename(destination)), 1, destination),
          files |-> fl]
  ELSE [kind |-> "path", dest |-> destination, files |-> fl]

\* the per-file observation a pass leaves in "last"
Event(filename, category, dest_path, final, outcome, fl) ==
  [filename |-> filename, source |-> Join(Root, filename), category |-> category,
   dest_path |-> dest_path, final |-> final, outcome |-> outcome,
   collided |-> dest_path \in DOMAIN fl, before |-> fl]

\* DestDir without the month folder
DestDir_NoMonth(category, mtime, organize_by_date) == <<category>>

\* dest_dir of sort_files, below the source directory
DestDir(category, mtime, organize_by_date) ==
  IF organize_by_date THEN <<category, StrfYearMonth(mtime)>>
  ELSE <<category>>

\* no category: stats["skipped"] += 1; continue
StepUncategorized(s, ev) ==
  [s EXCEPT !.skipped = @ + 1, !.events = Append(@, ev)]

\* final_dest is None: stats["skipped"] += 1; continue
StepSkipped(s, ev) ==
  [s EXCEPT !.skipped = @ + 1, !.events = Append(@, ev)]

\* os.remove raised inside _handle_duplicate: nothing in sort_files catches it
StepRaised(s, ev) ==
  [s EXCEPT !.raised = TRUE, !.events = Append(@, ev)]

\* the dry_run branch: stats["moved"] += 1; fl is the tree as
\* _handle_duplicate left it
StepPreview(s, fl, record, ev) ==
  [s EXCEPT !.files = fl, !.moved = @ + 1, !.events = Append(@, ev)]

\* the try block ran to its end: the file is moved, the operation recorded
StepMoved(s, fl, ds, record, ev) ==
  [s EXCEPT !.files = fl, !.dirs = ds, !.operations = Append(@, record),
            !.moved = @ + 1, !.events = Append(@, ev)]

\* StepError that also records the operation
StepError_Records(s, fl, ds, record, ev) ==
  [s EXCEPT !.files = fl, !.dirs = ds, !.operations = Append(@, record),
            !.errors = @ + 1, !.events = Append(@, ev)]

\* except (OSError, shutil.Error): stats["errors"] += 1
StepError(s, fl, ds, record, ev) ==
  [s EXCEPT !.files = fl, !.dirs = ds, !.errors = @ + 1, !.events = Append(@, ev)]

\* one iteration of the for loop of sort_files, on the running state s
SortStep(s, filename, dn, cats, dry_run, duplicate_strategy, organize_by_date) ==
  LET source_path == Join(Root, filename)
      ext == Lower(splitext(filename).ext)
      category == get_category_for_extension(cats, ext)
      dest_dir == DestDir(category, s.files[source_path].mtime, organize_by_date)
      dest_path == Join(dest_dir, filename)
      hd == HandleDuplicate(s.files, s.dirs, dn, dest_path, duplicate_strategy)
      md == MakeDirs(hd.files, s.dirs, dn, Parent(hd.dest))
      mv == Move(hd.files, md.dirs, dn, source_path, hd.dest)
      record == [source |-> source_path, destination |-> hd.dest,
                 filename |-> filename, category |-> category]
      Ev(final, outcome) == Event(filename, category, dest_path, final, outcome, s.files)
  IN
  IF IsDir(s.dirs, source_path) \/ filename = HISTORY_BASENAME
    THEN s
  ELSE IF category = None
    THEN StepUncategorized(s, Event(filename, None, <<>>, <<>>, "uncategorized", s.files))
  ELSE IF hd.kind = "raise"
    THEN StepRaised(s, Ev(<<>>, "raised"))
  ELSE IF hd.kind = "none"
    THEN StepSkipped(s, Ev(<<>>, "skipped"))
  ELSE IF dry_run
    THEN StepPreview(s, hd.files, record, Ev(hd.dest, "preview"))
  ELSE IF md.ok /\ mv.ok
    THEN StepMoved(s, mv.files, md.dirs, record, Ev(hd.dest, "moved"))
  ELSE StepError(s, hd.files, md.dirs, record, Ev(hd.dest, "error"))

RECURSIVE SortLoop(_, _, _, _, _, _, _, _)
\* the for loop of sort_files over items, left by an uncaught exception
SortLoop(s, items, i, dn, cats, dry_run, duplicate_strategy, organize_by_date) ==
  IF i > Len(items) \/ s.raised THEN s
  ELSE SortLoop(SortStep(s, items[i], dn, cats, dry_run, duplicate_strategy, organize_by_date),
                items, i + 1, dn, cats, dry_run, duplicate_strategy, organize_by_date)

\* sort_files that lets the OSError of os.listdir escape
SortPass_ListingRaises(fl, ds, dn, cats, subdirs, listed, items, dry_run, duplicate_strategy, organize_by_date) ==
  LET ens == EnsureDirectoriesExist(fl, ds, dn, cats, subdirs)
      s0 == [files |-> fl, dirs |-> ens.dirs, moved |-> 0, skipped |-> 0, errors |-> 0,
             operations |-> <<>>, raised |-> ~ens.ok \/ ~listed, events |-> <<>>,
             listing |-> IF ~ens.ok THEN "none" ELSE IF listed THEN "ok" ELSE "failed"]
  IN  IF listed
        THEN SortLoop(s0, items, 1, dn, cats, dry_run, duplicate_strategy, organize_by_date)
        ELSE s0

\* FileSorter.sort_files up to the end of the loop; items is the listing
\* os.listdir returned, and listed is FALSE when os.listdir raised OSError
\* instead (the zero statistics are returned at once)
SortPass(fl, ds, dn, cats, subdirs, listed, items, dry_run, duplicate_strategy, organize_by_date) ==
  LET ens == EnsureDirectoriesExist(fl, ds, dn, cats, subdirs)
      s0 == [files |-> fl, dirs |-> ens.dirs, moved |-> 0, skipped |-> 0, errors |-> 0,
             operations |-> <<>>, raised |-> ~ens.ok, events |-> <<>>,
             listing |-> IF ~ens.ok THEN "none" ELSE IF listed THEN "ok" ELSE "failed"]
  IN  IF listed
        THEN SortLoop(s0, items, 1, dn, cats, dry_run, duplicate_strategy, organize_by_date)
        ELSE s0

\* hexdigest of the MD5 of a content: a non-empty text, the same for the
\* same bytes; the contents of the model are few and do not collide
Md5Hex(content) == <<"m", "d", "5", "-">> \o Str(content)

\* FileSorter._get_file_hash: "" when the file cannot be read
GetFileHash(fl, unreadable, filepath) ==
  IF filepath \in unreadable THEN <<>> ELSE Md5Hex(fl[filepath].content)

\* hash_map after one more file: a dict in insertion order, digest -> paths
HashMapAdd(hash_map, file_hash, filepath) ==
  IF \E i \in 1..Len(hash_map) : hash_map[i].hash = file_hash
    THEN [i \in 1..Len(hash_map) |->
            IF hash_map[i].hash = file_hash
              THEN [hash_map[i] EXCEPT !.paths = Append(@, filepath)]
              ELSE hash_map[i]]
    ELSE Append(hash_map, [hash |-> file_hash, paths |-> <<filepath>>])

\* find_duplicates that keeps the empty digest of unreadable files as a key
HashLoop_KeepsUnreadable(fl, ds, unreadable, items, i, hash_map) ==
  LET Step(hm, k) == IF IsDir(ds, Join(Root, items[k])) THEN hm
                     ELSE HashMapAdd(hm, GetFileHash(fl, unreadable, Join(Root, items[k])),
                                     Join(Root, items[k]))
      RECURSIVE Go(_, _)
      Go(hm, k) == IF k > Len(items) THEN hm ELSE Go(Step(hm, k), k + 1)
  IN  Go(hash_map, i)

RECURSIVE HashLoop(_, _, _, _, _, _)
\* the for loop of find_duplicates
HashLoop(fl, ds, unreadable, items, i, hash_map) ==
  IF i > Len(items) THEN hash_map
  ELSE LET filepath == Join(Root, items[i])
           file_hash == GetFileHash(fl, unreadable, filepath)
       IN  HashLoop(fl, ds, unreadable, items, i + 1,
                    IF IsDir(ds, filepath) \/ file_hash = <<>> THEN hash_map
                    ELSE HashMapAdd(hash_map, file_hash, filepath))

\* duplicates = {h: files for h, files in hash_map.items() if len(files) > 1}
SelectGroups(hash_map) ==
  LET RECURSIVE Sel(_)
      Sel(k) == IF k > Len(hash_map) THEN <<>>
                ELSE (IF Len(hash_map[k].paths) > 1 THEN <<hash_map[k]>> ELSE <<>>)
                     \o Sel(k + 1)
  IN  Sel(1)

\* FileSorter.find_duplicates: {} when os.listdir raises, else the groups
\* of more than one path
find_duplicates(fl, ds, unreadable, listed, items) ==
  IF ~listed THEN <<>>
  ELSE SelectGroups(HashLoop(fl, ds, unreadable, items, 1, <<>>))

\* FileSorter.save_history: an IOError is only warned about
\* a save that keeps the records on disk and adds those the engine holds
SaveHistory_Merge(hist, disk, saveOk) ==
  IF saveOk
    THEN disk \o SelectSeq(hist, LAMBDA r : \A i \in 1..Len(disk) : disk[i] # r)
    ELSE disk

SaveHistory(hist, disk, saveOk) == IF saveOk THEN hist ELSE disk

\* pop(0): the oldest record instead of the newest
PopRecord_First(hist) == [operation |-> hist[1], rest |-> Tail(hist)]

\* a pop that leaves the record in the log
PopRecord_Keep(hist) == [operation |-> hist[Len(hist)], rest |-> hist]

\* self.history.pop()
PopRecord(hist) ==
  [operation |-> hist[Len(hist)], rest |-> SubSeq(hist, 1, Len(hist) - 1)]

\* UndoStep that puts a record it could not restore back into the log
UndoStep_PushBack(u, dn) ==
  LET pop == PopRecord(u.history)
      operation == pop.operation
      there == Exists(u.files, u.dirs, operation.destination)
      mv == Move(u.files, u.dirs, dn, operation.destination, operation.source)
      ev == [record |-> operation, there |-> there, ok |-> there /\ mv.ok,
             before |-> u.files]
  IN  [u EXCEPT !.history = IF there /\ mv.ok THEN pop.rest ELSE @,
                !.files = IF there THEN mv.files ELSE @,
                !.restored = IF there /\ mv.ok THEN @ + 1 ELSE @,
                !.events = Append(@, ev)]

\* one iteration of the for loop of undo_last_operation
UndoStep(u, dn) ==
  LET pop == PopRecord(u.history)
      operation == pop.operation
      there == Exists(u.files, u.dirs, operation.destination)
      mv == Move(u.files, u.dirs, dn, operation.destination, operation.source)
      ev == [record |-> operation, there |-> there, ok |-> there /\ mv.ok,
             before |-> u.files]
  IN  [u EXCEPT !.history = pop.rest,
                !.files = IF there THEN mv.files ELSE @,
                !.restored = IF there /\ mv.ok THEN @ + 1 ELSE @,
                !.events = Append(@, ev)]

\* an undo loop that, once started, empties the log
UndoLoop_WholeLog(u, n, dn) ==
  LET RECURSIVE Go(_)
      Go(v) == IF v.history = <<>> THEN v ELSE Go(UndoStep(v, dn))
  IN  IF n <= 0 THEN u ELSE Go(u)

RECURSIVE UndoLoop(_, _, _)
\* the for loop of undo_last_operation, n iterations left
UndoLoop(u, n, dn) ==
  IF n <= 0 \/ u.history = <<>> THEN u
  ELSE UndoLoop(UndoStep(u, dn), n - 1, dn)

Min(a, b) == IF a <= b THEN a ELSE b

\* FileSorter.undo_last_operation up to the end of the loop
UndoPass(fl, ds, dn, hist, count) ==
  UndoLoop([files |-> fl, dirs |-> ds, history |-> hist, restored |-> 0, events |-> <<>>],
           Min(count, Len(hist)), dn)

(***************************************************************************)
(* The directory and the log the engine is constructed on                  *)
(***************************************************************************)
NameA == <<"a", ".", "M", "P", "4">>
NameA1 == <<"a", "_", "1", ".", "M", "P", "4">>
NameB == <<"b", ".", "t", "x", "t">>
NameN == <<"n", "o", "t", "e", "s">>

Videos == DEFAULT_CATEGORIES[1].name

\* the files earlier runs and other programs may have left: five names in
\* the source directory, and a.MP4 already in the Videos folder and in its
\* month folder
StartPaths ==
  {<<NameA>>, <<NameA1>>, <<NameB>>, <<NameN>>, <<HISTORY_BASENAME>>,
   <<Videos, NameA>>, <<Videos, <<"2", "0", "2", "4", "-", "0", "1">>, NameA>>}

\* what each of them holds: the file in Videos differs from the a.MP4 of
\* the source directory, which is byte-identical to a_1.MP4
StartNode(p) ==
  IF p = <<NameA>> THEN [content |-> 1, mtime |-> <<2024, 1>>]
  ELSE IF p = <<NameA1>> THEN [content |-> 1, mtime |-> <<2023, 12>>]
  ELSE [content |-> 2, mtime |-> <<2023, 12>>]

\* the record an earlier pass left for a.MP4
RecA == [source |-> <<NameA>>, destination |-> <<Videos, NameA>>,
         filename |-> NameA, category |-> Videos]

\* the record an earlier pass left for b.txt, whose destination is gone
RecB == [source |-> <<NameB>>, destination |-> <<DEFAULT_CATEGORIES[4].name, NameB>>,
         filename |-> NameB, category |-> DEFAULT_CATEGORIES[4].name]

StartLogs == {<<>>, <<RecA>>, <<RecA, RecB>>}

\* paths at which the OS may refuse changes
DenyPaths == {<<Videos, NameA>>, <<Videos>>}

(***************************************************************************)
(* Observation of the last engine call                                     *)
(***************************************************************************)
NoPrior == [op |-> "none", dry_run |-> FALSE, raised |-> FALSE, listing |-> "none",
            moved |-> 0, operations |-> <<>>, logLen |-> 0, files |-> EmptyFiles,
            priorOp |-> "none", priorLogLen |-> 0, priorMoved |-> 0]

NoCall ==
  [op |-> "none", dry_run |-> FALSE, strategy |-> "rename", by_date |-> FALSE,
   listing |-> "none", event |-> None, count |-> 0, raised |-> FALSE, moved |-> 0, skipped |-> 0, errors |-> 0,
   restored |-> 0, events |-> <<>>, operations |-> <<>>, saves |-> 0, saveOk |-> TRUE,
   files |-> EmptyFiles, dirs |-> {}, history |-> <<>>, persisted |-> <<>>,
   prior |-> NoPrior]

\* what a call remembers of the call it directly follows
PriorOf(l) ==
  [op |-> l.op, dry_run |-> l.dry_run, raised |-> l.raised, listing |-> l.listing,
   moved |-> l.moved, operations |-> l.operations, logLen |-> Len(l.history),
   files |-> l.files, priorOp |-> l.prior.op, priorLogLen |-> l.prior.logLen,
   priorMoved |-> l.prior.moved]

TopFiles(fl) == {p \in DOMAIN fl : Len(p) = 1}

(***************************************************************************)
(* Actions                                                                 *)
(***************************************************************************)
\* FileSorter.__init__ on an existing directory: history is loaded from
\* the log file, create_subdirs has its default
\* the second engine before its construction
NoEngine == [constructed |-> FALSE, history |-> <<>>, calls |-> 0]

Init ==
  /\ \E S \in SUBSET StartPaths :
       /\ Cardinality(S) <= MaxFiles
       /\ files = [p \in S |-> StartNode(p)]
       /\ dirs = {Root} \cup UNION {Prefixes(Parent(p)) : p \in S}
  /\ denied \in {{}} \cup {{p} : p \in DenyPaths}
  /\ categories = DEFAULT_CATEGORIES
  /\ create_subdirs = TRUE
  /\ persisted \in StartLogs
  /\ history = persisted
  /\ event_queue = <<>>
  /\ other = NoEngine
  /\ last = NoCall

\* FileSorter.sort_files: os.listdir either raises OSError (listed is
\* FALSE) or returns the children in some order; save_history may fail to
\* write
SortCall(dry_run, duplicate_strategy, organize_by_date, listed) ==
  /\ \E items \in IF listed THEN Orders(files, dirs) ELSE {<<>>} :
       \E s \in {SortPass(files, dirs, denied, categories, create_subdirs, listed, items,
                          dry_run, duplicate_strategy, organize_by_date)} :
       LET saving == ~s.raised /\ s.operations # <<>> /\ ~dry_run
       IN  \E saveOk \in IF saving THEN BOOLEAN ELSE {TRUE} :
             /\ files' = s.files
             /\ dirs' = s.dirs
             /\ history' = IF saving THEN history \o s.operations ELSE history
             /\ persisted' = IF saving THEN SaveHistory(history', persisted, saveOk)
                             ELSE persisted
             /\ last' = [NoCall EXCEPT
                    !.op = "sort", !.dry_run = dry_run, !.strategy = duplicate_strategy,
                    !.by_date = organize_by_date, !.listing = s.listing,
                    !.raised = s.raised,
                    !.moved = s.moved, !.skipped = s.skipped, !.errors = s.errors,
                    !.events = s.events, !.operations = s.operations,
                    !.saves = IF saving THEN 1 ELSE 0, !.saveOk = saveOk,
                    !.files = files, !.dirs = dirs, !.history = history,
                    !.persisted = persisted, !.prior = PriorOf(last)]
  /\ UNCHANGED <<denied, categories, create_subdirs, event_queue, other>>

\* the pass a freshly constructed engine makes (the CLI constructs one
\* engine for every invocation)
Sort(dry_run, duplicate_strategy, organize_by_date, listed) ==
  /\ last.op = "none"
  /\ SortCall(dry_run, duplicate_strategy, organize_by_date, listed)

\* FileSorter.undo_last_operation, on a freshly constructed engine or right
\* after the pass of this engine returned (an exception ends the caller)
Undo(count, saveOk) ==
  /\ last.op \in {"none", "sort"}
  /\ ~last.raised
  /\ \E u \in {UndoPass(files, dirs, denied, history, count)} :
      /\ files' = u.files
      /\ dirs' = dirs
      /\ history' = u.history
      /\ persisted' = SaveHistory(history', persisted, saveOk)
      /\ last' = [NoCall EXCEPT
                    !.op = "undo", !.count = count, !.restored = u.restored,
                    !.events = u.events, !.saves = 1, !.saveOk = saveOk,
                    !.files = files, !.dirs = dirs, !.history = history,
                    !.persisted = persisted, !.prior = PriorOf(last)]
      /\ UNCHANGED <<denied, categories, create_subdirs, event_queue, other>>

Next ==
  \/ \E dry_run \in BOOLEAN, st \in Strategies, by_date \in BOOLEAN, listed \in BOOLEAN :
       Sort(dry_run, st, by_date, listed)
  \/ \E count \in 0..MaxCount, saveOk \in BOOLEAN : Undo(count, saveOk)

Spec == Init /\ [][Next]_vars

\* a further pass of the same engine, as a long-lived caller makes it (the
\* watcher keeps one engine); a call that raised ends the caller
SortAgain(dry_run, duplicate_strategy, organize_by_date, listed) ==
  /\ last.op = "sort"
  /\ ~last.raised
  /\ last.prior.op = "none"
  /\ SortCall(dry_run, duplicate_strategy, organize_by_date, listed)

NextRepeat ==
  \/ \E dry_run \in BOOLEAN, st \in Strategies, by_date \in BOOLEAN, listed \in BOOLEAN :
       Sort(dry_run, st, by_date, listed)
  \/ \E dry_run \in BOOLEAN, st \in Strategies, by_date \in BOOLEAN, listed \in BOOLEAN :
       SortAgain(dry_run, st, by_date, listed)
  \/ \E count \in 0..MaxCount, saveOk \in BOOLEAN : Undo(count, saveOk)

\* the start trees of the engines followed over two passes
RepeatPaths == {<<NameA>>, <<NameB>>, <<NameN>>, <<Videos, NameA>>}

InitRepeat ==
  /\ Init
  /\ DOMAIN files \subseteq RepeatPaths
  /\ denied \subseteq {<<Videos, NameA>>}
  /\ Len(persisted) <= 1

\* one engine making up to two passes and then an undo
SpecRepeat == InitRepeat /\ [][NextRepeat]_vars

\* FileSorter.find_duplicates on a freshly constructed engine; unreadable
\* are the files open() fails on
FindDuplicates(listed, unreadable) ==
  /\ last.op = "none"
  /\ \E items \in IF listed THEN Orders(files, dirs) ELSE {<<>>} :
       last' = [op |-> "find_duplicates", listed |-> listed, unreadable |-> unreadable,
                duplicates |-> find_duplicates(files, dirs, unreadable, listed, items)]
  /\ UNCHANGED <<files, dirs, denied, categories, create_subdirs, history, persisted, event_queue, other>>

NextDuplicates ==
  \E listed \in BOOLEAN, unreadable \in SUBSET TopFiles(files) :
    FindDuplicates(listed, unreadable)

SpecDuplicates == Init /\ [][NextDuplicates]_vars

(***************************************************************************)
(* Watch mode (watch.py): the observer thread takes the file-creation      *)
(* events of the source directory one at a time and hands each to          *)
(* FileCreatedHandler.on_created, which calls sort_files on the engine     *)
(***************************************************************************)
\* the defaults of sort_files, which on_created does not override
DefaultDryRun == FALSE

\* a handler that keeps a file whose destination is taken where it is
DefaultStrategy_Skip == "skip"

DefaultStrategy == "rename"

DefaultByDate == FALSE

\* names of the files other processes create in the watched directory
WatchNames == {NameA, NameB, NameN}

\* the tree when the watcher starts
WatchPaths == {<<NameA>>, <<NameB>>, <<Videos, NameA>>}

InitWatch ==
  /\ Init
  /\ DOMAIN files \subseteq WatchPaths
  /\ Cardinality(DOMAIN files) < MaxTree
  /\ denied = {}
  /\ persisted = <<>>

\* another process creates a file in the source directory; the observer
\* queues a FileCreatedEvent for it
Create(name) ==
  /\ <<name>> \notin DOMAIN files
  /\ <<name>> \notin dirs
  /\ Cardinality(DOMAIN files) < MaxTree
  /\ files' = Put(files, <<name>>, StartNode(<<name>>))
  /\ event_queue' = Append(event_queue, name)
  /\ last' = [NoCall EXCEPT !.op = "create", !.event = name, !.raised = last.raised]
  /\ UNCHANGED <<dirs, denied, categories, create_subdirs, history, persisted, other>>

\* the observer thread takes the oldest queued event for its handler; an
\* exception of an earlier handling has ended the thread
Dispatch ==
  /\ event_queue # <<>>
  /\ ~last.raised
  /\ event_queue' = Tail(event_queue)

\* FileCreatedHandler.on_created for the dispatched event, after its sleep:
\* sort_files() with its defaults when the extension of the created file
\* has a category, nothing otherwise
OnCreated(listed) ==
  /\ Dispatch
  /\ LET filename == Head(event_queue)
         category == get_category_for_extension(categories, Lower(splitext(filename).ext))
     IN  IF category = None
           THEN /\ last' = [NoCall EXCEPT !.op = "on_created", !.event = filename,
                                          !.files = files, !.dirs = dirs,
                                          !.history = history, !.persisted = persisted]
                /\ UNCHANGED <<files, dirs, history, persisted>>
           ELSE \E items \in IF listed THEN Orders(files, dirs) ELSE {<<>>} :
                \E s \in {SortPass(files, dirs, denied, categories, create_subdirs, listed,
                                   items, DefaultDryRun, DefaultStrategy, DefaultByDate)} :
                LET saving == ~s.raised /\ s.operations # <<>> /\ ~DefaultDryRun
                IN  \E saveOk \in IF saving THEN BOOLEAN ELSE {TRUE} :
                      /\ files' = s.files
                      /\ dirs' = s.dirs
                      /\ history' = IF saving THEN history \o s.operations ELSE history
                      /\ persisted' = IF saving
                                        THEN SaveHistory(history', persisted, saveOk)
                                        ELSE persisted
                      /\ last' = [NoCall EXCEPT
                             !.op = "on_created", !.event = filename,
                             !.dry_run = DefaultDryRun, !.strategy = DefaultStrategy,
                             !.by_date = DefaultByDate, !.listing = s.listing,
                             !.raised = s.raised,
                             !.moved = s.moved, !.skipped = s.skipped, !.errors = s.errors,
                             !.events = s.events, !.operations = s.operations,
                             !.saves = IF saving THEN 1 ELSE 0, !.saveOk = saveOk,
                             !.files = files, !.dirs = dirs, !.history = history,
                             !.persisted = persisted]
  /\ UNCHANGED <<denied, categories, create_subdirs, other>>

NextWatch ==
  \/ \E name \in WatchNames : Create(name)
  \/ \E listed \in BOOLEAN : OnCreated(listed)

SpecWatch == InitWatch /\ [][NextWatch]_vars

\* the observer thread keeps running: a queued event is dispatched in the end
SpecWatchLive == SpecWatch /\ WF_event_queue(Dispatch)

(***************************************************************************)
(* Two engines on one history_file: the engine of a watch-mode process     *)
(* (history, OnCreated) and the engine of a manual invocation (other).     *)
(* Each loads the log once, in its constructor, and writes its own         *)
(* self.history over the file after a mutating call                        *)
(***************************************************************************)
\* files in the tree the two engines share
RaceTree == MaxTree - 1

\* the log file is new and the tree small when the watcher starts
InitRace ==
  /\ InitWatch
  /\ Cardinality(DOMAIN files) <= 1

\* FileSorter.__init__ of the second engine: load_history reads the file
OtherConstruct ==
  /\ ~other.constructed
  /\ other' = [constructed |-> TRUE, history |-> persisted, calls |-> 0]
  /\ last' = [NoCall EXCEPT !.op = "other_construct", !.raised = last.raised,
                            !.files = files, !.dirs = dirs,
                            !.history = other.history, !.persisted = persisted]
  /\ UNCHANGED <<files, dirs, denied, categories, create_subdirs, history, persisted,
                 event_queue>>

\* sort_files() of the second engine, with the defaults
OtherSort(listed) ==
  /\ other.constructed
  /\ other.calls < MaxCalls
  /\ \E items \in IF listed THEN Orders(files, dirs) ELSE {<<>>} :
       \E s \in {SortPass(files, dirs, denied, categories, create_subdirs, listed, items,
                          DefaultDryRun, DefaultStrategy, DefaultByDate)} :
       LET saving == ~s.raised /\ s.operations # <<>> /\ ~DefaultDryRun
       IN  \E saveOk \in IF saving THEN BOOLEAN ELSE {TRUE} :
             /\ files' = s.files
             /\ dirs' = s.dirs
             /\ other' = [other EXCEPT !.history = IF saving THEN @ \o s.operations ELSE @,
                                       !.calls = @ + 1]
             /\ persisted' = IF saving THEN SaveHistory(other'.history, persisted, saveOk)
                             ELSE persisted
             /\ last' = [NoCall EXCEPT
                    !.op = "other_sort", !.listing = s.listing,
                    !.raised = last.raised,
                    !.moved = s.moved, !.skipped = s.skipped, !.errors = s.errors,
                    !.events = s.events, !.operations = s.operations,
                    !.saves = IF saving THEN 1 ELSE 0, !.saveOk = saveOk,
                    !.files = files, !.dirs = dirs, !.history = other.history,
                    !.persisted = persisted]
  /\ UNCHANGED <<denied, categories, create_subdirs, history, event_queue>>

\* undo_last_operation(count) of the second engine
OtherUndo(count, saveOk) ==
  /\ other.constructed
  /\ other.calls < MaxCalls
  /\ \E u \in {UndoPass(files, dirs, denied, other.history, count)} :
      /\ files' = u.files
      /\ other' = [other EXCEPT !.history = u.history, !.calls = @ + 1]
      /\ persisted' = SaveHistory(other'.history, persisted, saveOk)
      /\ last' = [NoCall EXCEPT
                    !.op = "other_undo", !.count = count, !.restored = u.restored,
                    !.raised = last.raised,
                    !.events = u.events, !.saves = 1, !.saveOk = saveOk,
                    !.files = files, !.dirs = dirs, !.history = other.history,
                    !.persisted = persisted]
  /\ UNCHANGED <<dirs, denied, categories, create_subdirs, history, event_queue>>

NextRace ==
  \/ \E name \in WatchNames : Cardinality(DOMAIN files) < RaceTree /\ Create(name)
  \/ \E listed \in BOOLEAN : OnCreated(listed)
  \/ OtherConstruct
  \/ \E listed \in BOOLEAN : OtherSort(listed)
  \/ \E count \in 1..MaxCount, saveOk \in BOOLEAN : OtherUndo(count, saveOk)

SpecRace == InitRace /\ [][NextRace]_vars

(***************************************************************************)
(* The category map on its own: Config built from the defaults and a       *)
(* configuration file, then changed and queried                            *)
(***************************************************************************)
Clips == <<"C", "l", "i", "p", "s">>

ExtMp4 == <<".", "m", "p", "4">>
ExtMP4 == <<".", "M", "P", "4">>
ExtRaw == <<".", "r", "a", "w">>
ExtRAW == <<".", "R", "A", "W">>
ExtRaW == <<".", "R", "a", "W">>
ExtZip == <<".", "z", "i", "p">>
ExtTmp == <<".", "t", "m", "p">>

\* category names and extension lists handed to add_category
CategoryNames == {Videos, Clips}
ExtLists == {<<ExtMp4>>, <<ExtRaw, ExtMp4>>, <<ExtRAW>>, <<ExtZip, ExtRaw>>}

\* the 'categories' object of the configuration file, if any
CustomConfigs ==
  {<<>>, <<[name |-> Clips, exts |-> <<ExtRaw>>]>>, <<[name |-> Clips, exts |-> <<ExtRAW, ExtMp4>>]>>}

\* extensions looked up
QueryExts == {ExtMp4, ExtMP4, ExtRaw, ExtRAW, ExtRaW, ExtZip, ExtTmp}

NoQuery == [op |-> "none", name |-> None, exts |-> <<>>, extension |-> None,
            result |-> None, adds |-> 0, after |-> "none", categories |-> <<>>]

\* Config.__init__: the defaults, updated from the configuration file
InitConfig ==
  /\ categories \in {DictUpdate(DEFAULT_CATEGORIES, custom) : custom \in CustomConfigs}
  /\ files = EmptyFiles
  /\ dirs = {Root}
  /\ denied = {}
  /\ create_subdirs = TRUE
  /\ history = <<>>
  /\ persisted = <<>>
  /\ event_queue = <<>>
  /\ other = NoEngine
  /\ last = NoQuery

\* Config.add_category
AddCategory(category_name, extensions) ==
  /\ last.op # "lookup"
  /\ last.adds < MaxAdds
  /\ categories' = add_category(categories, category_name, extensions)
  /\ last' = [NoQuery EXCEPT !.op = "add", !.name = category_name, !.exts = extensions,
                              !.adds = last.adds + 1, !.categories = categories]
  /\ UNCHANGED <<files, dirs, denied, create_subdirs, history, persisted, event_queue, other>>

\* Config.remove_category
RemoveCategory(category_name) ==
  /\ last.op \notin {"remove", "lookup"}
  /\ categories' = remove_category(categories, category_name)
  /\ last' = [NoQuery EXCEPT !.op = "remove", !.name = category_name,
                              !.adds = last.adds, !.categories = categories]
  /\ UNCHANGED <<files, dirs, denied, create_subdirs, history, persisted, event_queue, other>>

\* Config.get_category_for_extension, called right after the map was built
\* or changed; after, name and exts keep the call before it
GetCategoryForExtension(extension) ==
  /\ last.op # "lookup"
  /\ last' = [last EXCEPT !.op = "lookup", !.after = last.op, !.extension = extension,
                           !.result = get_category_for_extension(categories, extension)]
  /\ UNCHANGED <<files, dirs, denied, categories, create_subdirs, history, persisted, event_queue, other>>

NextConfig ==
  \/ \E name \in CategoryNames, exts \in ExtLists : AddCategory(name, exts)
  \/ \E name \in CategoryNames : RemoveCategory(name)
  \/ \E e \in QueryExts : GetCategoryForExtension(e)

SpecConfig == InitConfig /\ [][NextConfig]_vars

(***************************************************************************)
(* Properties                                                              *)
(***************************************************************************)
\* the regular files directly in the source directory, the log file aside
Eligible(fl) == {p \in TopFiles(fl) : Basename(p) # HISTORY_BASENAME}

\* the categories that list the lower-cased extension of the file at p
CategoriesOf(p) ==
  {i \in 1..Len(categories) : InSeq(Lower(splitext(Basename(p)).ext), categories[i].exts)}

Categorized(fl) == {p \in Eligible(fl) : CategoriesOf(p) # {}}

\* source/<category>/<filename>, or source/<category>/<YYYY-MM>/<filename>
ExpectedDest(p, node, by_date) ==
  LET cat == categories[CHOOSE i \in CategoriesOf(p) : \A j \in CategoriesOf(p) : i <= j].name
  IN  IF by_date
        THEN <<cat, Str(node.mtime[1]) \o <<"-">> \o TwoDigits(node.mtime[2]), Basename(p)>>
        ELSE <<cat, Basename(p)>>

SortReturned == last.op = "sort" /\ ~last.raised

EventsWith(outcomes) == {i \in 1..Len(last.events) : last.events[i].outcome \in outcomes}

\* C1: a dry-run pass leaves the set of files and directories under the
\* source directory, and every file's content, as they were before the call
C1_DryRunNeverMutates ==
  (last.op = "sort" /\ last.dry_run) => (files = last.files /\ dirs = last.dirs)

\* C2: a pass that returned moved = m, directly followed by undo(count = m),
\* puts every file the pass moved back at its original path with its
\* content and off its destination; undo returns m and the log is as long
\* as before the pass
C2_RoundTrip ==
  (/\ last.op = "undo"
   /\ last.prior.op = "sort" /\ ~last.prior.dry_run /\ ~last.prior.raised
   /\ last.count = last.prior.moved)
  => /\ \A i \in 1..Len(last.prior.operations) :
          LET r == last.prior.operations[i]
          IN  /\ r.source \in DOMAIN files
              /\ files[r.source] = last.prior.files[r.source]
              /\ r.destination \notin DOMAIN files
     /\ last.restored = last.prior.moved
     /\ Len(last.history) - Len(history) = last.prior.moved
     /\ Len(history) = last.prior.logLen

C2_Witness ==
  /\ last.op = "undo" /\ last.prior.op = "sort" /\ ~last.prior.dry_run
  /\ last.count = last.prior.moved /\ last.prior.moved = 2
  /\ last.prior.logLen = 1

\* C3 as stated: after a real pass returns, every categorized file of the
\* source directory is at source/<category>/[<YYYY-MM>/]<filename> and is
\* gone from its original path
C3_EveryCategorizedFileMoved ==
  (SortReturned /\ ~last.dry_run)
  => \A p \in Categorized(last.files) :
       /\ ExpectedDest(p, last.files[p], last.by_date) \in DOMAIN files
       /\ p \notin DOMAIN files

\* C3 amended: that holds of every file the pass moved without renaming it
\* (no file was at the destination when the file was reached, or the
\* strategy is replace): it is at the destination with its content
C3_MovedFileAtCategoryPath ==
  (SortReturned /\ ~last.dry_run)
  => \A i \in EventsWith({"moved"}) :
       LET e == last.events[i]
           d == ExpectedDest(e.source, last.files[e.source], last.by_date)
       IN  /\ e.source \in Categorized(last.files)
           /\ (~e.collided \/ last.strategy = "replace")
              => /\ d \in DOMAIN files
                 /\ files[d] = last.files[e.source]
                 /\ e.source \notin DOMAIN files

C3_Witness ==
  /\ SortReturned /\ ~last.dry_run /\ last.by_date /\ last.strategy = "rename"
  /\ \E i \in EventsWith({"moved"}) : ~last.events[i].collided
  /\ \E i \in EventsWith({"moved"}) : last.events[i].collided

\* C4: under strategy replace, a destination that was taken before the
\* call holds, after the call, the content of the source file
C4_ReplaceLeavesSourceContent ==
  (last.op = "sort" /\ last.strategy = "replace")
  => \A p \in Categorized(last.files) :
       LET d == ExpectedDest(p, last.files[p], last.by_date)
       IN  d \in DOMAIN last.files
           => d \in DOMAIN files /\ files[d].content = last.files[p].content

\* C5: under strategy rename a file that meets a taken destination base.ext
\* goes to base_k.ext for the smallest k >= 1 that is free; the path
\* returned did not exist, no file that was there is overwritten or
\* deleted, and the moved file is kept next to it
C5_RenameNeverOverwrites ==
  (last.op = "sort" /\ last.strategy = "rename")
  => /\ \A i \in 1..Len(last.events) :
          LET e == last.events[i]
              sp == splitext(Basename(e.dest_path))
              Cand(k) == Join(Parent(e.dest_path), sp.base \o <<"_">> \o Str(k) \o sp.ext)
          IN  /\ e.final # <<>> => e.final \notin DOMAIN e.before
              /\ e.collided
                 => /\ e.outcome \in {"moved", "preview", "error"}
                    /\ \E k \in 1..(MaxFiles + 1) :
                         /\ e.final = Cand(k)
                         /\ \A j \in 1..(k - 1) : Cand(j) \in DOMAIN e.before
              /\ e.outcome = "moved"
                 => e.final \in DOMAIN files /\ files[e.final] = last.files[e.source]
     /\ \A q \in DOMAIN last.files :
          \/ q \in DOMAIN files /\ files[q] = last.files[q]
          \/ \E i \in EventsWith({"moved"}) : last.events[i].source = q

C5_Witness ==
  /\ last.op = "sort" /\ last.strategy = "rename" /\ ~last.dry_run
  /\ \E i \in EventsWith({"moved"}) :
       /\ last.events[i].collided
       /\ last.events[i].final = <<Videos, <<"a", "_", "2", ".", "M", "P", "4">> >>
       /\ <<Videos, NameA>> \in DOMAIN files
       /\ files[<<Videos, NameA>>] = last.files[<<Videos, NameA>>]

\* C6: under strategy skip a file whose destination is taken stays at its
\* path, the destination keeps its content, the file is counted under
\* skipped and not under moved, and no Operation Record is appended for it
C6_SkipLeavesBothFiles ==
  (last.op = "sort" /\ last.strategy = "skip" /\ last.listing = "ok")
  => LET taken == {p \in Categorized(last.files) :
                     ExpectedDest(p, last.files[p], last.by_date) \in DOMAIN last.files}
     IN  /\ \A p \in taken :
              LET d == ExpectedDest(p, last.files[p], last.by_date)
              IN  /\ d \in DOMAIN files /\ files[d] = last.files[d]
                  /\ p \in DOMAIN files /\ files[p] = last.files[p]
                  /\ \A i \in 1..Len(history) :
                       i > Len(last.history) => history[i].source # p
         /\ ~last.raised
         /\ last.skipped = Cardinality(taken)
                           + Cardinality(Eligible(last.files) \ Categorized(last.files))
         /\ last.moved + last.errors = Cardinality(Categorized(last.files) \ taken)

C6_Witness ==
  /\ last.op = "sort" /\ last.strategy = "skip" /\ ~last.dry_run
  /\ last.moved = 1 /\ last.skipped = 1
  /\ \E i \in EventsWith({"skipped"}) :
       /\ last.events[i].collided
       /\ last.events[i].source \in DOMAIN files
       /\ files[last.events[i].source].content # files[last.events[i].dest_path].content

\* C7: once the directory is listed, handling one file never makes
\* sort_files raise, and every file of the listing is handled
C7_NoFileAbortsThePass ==
  (last.op = "sort" /\ last.listing = "ok")
  => /\ ~last.raised
     /\ Len(last.events) = Cardinality(Eligible(last.files))

\* C8: a pass changes the log only by appending a record for each file it
\* really moved; a dry run and a pass that moved nothing leave the log in
\* memory and on disk as they were
C8_LogOnlyForRealMoves ==
  last.op = "sort"
  => /\ (last.dry_run \/ last.moved = 0)
        => history = last.history /\ persisted = last.persisted
     /\ Len(history) >= Len(last.history)
     /\ SubSeq(history, 1, Len(last.history)) = last.history
     /\ \A i \in (Len(last.history) + 1)..Len(history) :
          LET r == history[i]
          IN  /\ r.source \in DOMAIN last.files
              /\ r.source \notin DOMAIN files
              /\ r.destination \in DOMAIN files
              /\ files[r.destination] = last.files[r.source]
     /\ persisted \in {last.persisted, history}

C8_Witness ==
  /\ last.op = "sort" /\ ~last.dry_run /\ ~last.raised
  /\ last.moved = 0 /\ last.errors = 1
  /\ last.history # <<>>

\* C9: with a count above the number n of records, undo handles exactly n
\* records, restores at most n files, exactly n when every destination is
\* there and every move back succeeds, and leaves the log empty
C9_UndoBeyondLog ==
  (last.op = "undo" /\ last.count > Len(last.history))
  => /\ Len(last.events) = Len(last.history)
     /\ last.restored <= Len(last.history)
     /\ history = <<>>
     /\ (\A i \in 1..Len(last.events) : last.events[i].there /\ last.events[i].ok)
        => /\ last.restored = Len(last.history)
           /\ \A i \in 1..Len(last.history) : last.history[i].source \in DOMAIN files

C9_Witness ==
  /\ last.op = "undo" /\ last.count > Len(last.history)
  /\ Len(last.history) = 1 /\ last.restored = 1

\* C10: undo takes exactly min(count, len(log)) records off the tail,
\* newest first, whether or not each restore works; a record whose
\* destination is gone or whose move fails is not counted and not put
\* back, the records after it are still handled, and the log is saved
\* once, as it stands after all pops
C10_UndoPopsRegardless ==
  last.op = "undo"
  => LET n == Len(last.history)
         k == Min(last.count, n)
     IN  /\ Len(history) = n - k
         /\ history = SubSeq(last.history, 1, n - k)
         /\ Len(last.events) = k
         /\ \A i \in 1..k :
              /\ last.events[i].record = last.history[n - i + 1]
              /\ last.events[i].record.destination \notin DOMAIN last.events[i].before
                 => ~last.events[i].ok
         /\ last.restored = Cardinality({i \in 1..k : last.events[i].ok})
         /\ last.saves = 1
         /\ last.saveOk => persisted = history

C10_Witness ==
  /\ last.op = "undo" /\ last.count = 2 /\ Len(last.events) = 2
  /\ ~last.events[1].ok /\ last.events[2].ok
  /\ last.restored = 1 /\ history = <<>> /\ persisted = <<>>

\* C11: when os.listdir of the source directory fails, sort_files does not
\* raise, returns zero statistics, moves no file and leaves the log in
\* memory and on disk as it was; the next pass of the same engine that can
\* list the directory handles every file of it and logs what it moved
C11_ListingFailureReturnsZero ==
  /\ (last.op = "sort" /\ last.listing = "failed")
     => /\ ~last.raised
        /\ last.moved = 0 /\ last.skipped = 0 /\ last.errors = 0
        /\ files = last.files
        /\ history = last.history
        /\ persisted = last.persisted
  /\ (/\ last.op = "sort" /\ last.listing = "ok" /\ ~last.raised
      /\ last.prior.op = "sort" /\ last.prior.listing = "failed")
     => /\ last.files = last.prior.files
        /\ Len(last.history) = last.prior.logLen
        /\ last.moved + last.skipped + last.errors = Cardinality(Eligible(last.files))
        /\ \A i \in EventsWith({"moved"}) :
             LET e == last.events[i]
             IN  /\ e.source \notin DOMAIN files
                 /\ e.final \in DOMAIN files
                 /\ files[e.final] = last.files[e.source]
        /\ ~last.dry_run => Len(history) = Len(last.history) + last.moved

C11_Witness ==
  /\ last.op = "sort" /\ last.listing = "ok" /\ ~last.raised /\ ~last.dry_run
  /\ last.prior.op = "sort" /\ last.prior.listing = "failed"
  /\ last.moved = 2 /\ last.skipped = 1
  /\ Len(last.history) = 1 /\ Len(history) = 3

\* C12: get_category_for_extension returns a category whose extension list
\* holds the queried extension when letter case is ignored, and None only
\* when no category holds it
C12_LookupIgnoresCase ==
  last.op = "lookup"
  => LET holders == {i \in 1..Len(categories) :
                       \E k \in 1..Len(categories[i].exts) :
                         Lower(categories[i].exts[k]) = Lower(last.extension)}
     IN  /\ last.result = None <=> holders = {}
         /\ last.result # None => \E i \in holders : categories[i].name = last.result

\* C13: after add_category(name, exts) every extension of exts is looked up
\* as name
C13_AddCategoryLastWriteWins ==
  (last.op = "lookup" /\ last.after = "add" /\ InSeq(last.extension, last.exts))
  => last.result = last.name

\* C14: when the directory can be listed, find_duplicates returns exactly
\* the groups of two or more readable direct-child files of equal content:
\* no group is smaller than 2, no file is in two groups or twice in one,
\* N identical readable files are one group of size N, and an unreadable
\* file is in no group
C14_DuplicateGroups ==
  (last.op = "find_duplicates" /\ last.listed)
  => LET dup == last.duplicates
         readable == TopFiles(files) \ last.unreadable
         Same(p) == {q \in readable : files[q].content = files[p].content}
         Members(g) == {dup[g].paths[k] : k \in 1..Len(dup[g].paths)}
     IN  /\ \A g \in 1..Len(dup) :
              /\ Len(dup[g].paths) >= 2
              /\ Cardinality(Members(g)) = Len(dup[g].paths)
              /\ Members(g) \subseteq readable
              /\ \A h \in 1..Len(dup) : g # h => Members(g) \cap Members(h) = {}
         /\ \A p \in readable :
              IF Cardinality(Same(p)) >= 2
                THEN Cardinality({g \in 1..Len(dup) : Members(g) = Same(p)}) = 1
                ELSE \A g \in 1..Len(dup) : p \notin Members(g)

C14_Witness ==
  /\ last.op = "find_duplicates" /\ last.listed
  /\ Len(last.duplicates) = 1
  /\ Len(last.duplicates[1].paths) = 2
  /\ Cardinality(last.unreadable) = 1
  /\ \E p \in last.unreadable : files[p].content = files[last.duplicates[1].paths[1]].content

\* C15: a pass that lists the directory returns statistics in which every
\* direct-child regular file other than the log file is counted exactly
\* once, under moved, skipped or errors
C15_StatsAccountForEveryFile ==
  (last.op = "sort" /\ last.listing = "ok")
  => /\ ~last.raised
     /\ last.moved + last.skipped + last.errors = Cardinality(Eligible(last.files))
     /\ Cardinality(EventsWith({"moved", "preview"})) = last.moved
     /\ Cardinality(EventsWith({"skipped", "uncategorized"})) = last.skipped
     /\ Cardinality(EventsWith({"error"})) = last.errors

\* C16: when a real pass ends, by returning or by raising, every file it
\* moved has a record from its original path to its present path in the
\* log in memory and in the log file, and after a returning pass the log
\* has grown by the returned moved count
C16_EveryMoveRecorded ==
  (last.op = "sort" /\ ~last.dry_run)
  => /\ \A i \in EventsWith({"moved"}) :
          LET e == last.events[i]
              Logged(log) == \E k \in 1..Len(log) :
                               /\ k > Len(last.history)
                               /\ log[k].source = e.source
                               /\ log[k].destination = e.final
          IN  Logged(history) /\ Logged(persisted)
     /\ ~last.raised => Len(history) = Len(last.history) + last.moved

\* C17: when undo handles a record while another file is at the record's
\* source path, the content of that file is still somewhere in the tree
\* after the undo
C17_UndoKeepsExistingFile ==
  last.op = "undo"
  => \A i \in 1..Len(last.events) :
       LET r == last.events[i].record
           b == last.events[i].before
       IN  (r.source \in DOMAIN b /\ r.destination \in DOMAIN b)
           => \E q \in DOMAIN files : files[q].content = b[r.source].content

\* C18: undo(k) handles the k newest records, newest first, and leaves the
\* older records as they were, in order; after two real passes of one
\* engine, undo with the moved count of the second pass handles the records
\* of the second pass only, and every file that is not a destination of
\* the second pass keeps its path and content
C18_UndoIsLifo ==
  last.op = "undo"
  => LET n == Len(last.history)
         k == Min(last.count, n)
     IN  /\ history = SubSeq(last.history, 1, n - k)
         /\ \A i \in 1..Len(last.events) : last.events[i].record = last.history[n - i + 1]
         /\ (/\ last.prior.op = "sort" /\ ~last.prior.dry_run
             /\ last.prior.priorOp = "sort"
             /\ last.count = last.prior.moved)
            => /\ Len(last.events) = last.prior.moved
               /\ \A i \in 1..Len(last.events) :
                    last.events[i].record
                      = last.prior.operations[Len(last.prior.operations) - i + 1]
               /\ Len(history) = last.prior.logLen
               /\ \A p \in DOMAIN last.files :
                    (\A j \in 1..Len(last.prior.operations) :
                       last.prior.operations[j].destination # p)
                    => p \in DOMAIN files /\ files[p] = last.files[p]

C18_Witness ==
  /\ last.op = "undo" /\ last.prior.op = "sort" /\ ~last.prior.dry_run
  /\ last.prior.priorOp = "sort"
  /\ last.prior.logLen = last.prior.priorLogLen + 1
  /\ last.prior.moved = 1 /\ last.count = 1 /\ last.restored = 1
  /\ Len(history) = last.prior.logLen
  /\ history[Len(history)].destination \in DOMAIN files
  /\ history[Len(history)].source \notin DOMAIN files
  /\ <<NameA>> \in DOMAIN files

\* the created files whose extension has a category
SortableNames ==
  {name \in WatchNames :
     get_category_for_extension(DEFAULT_CATEGORIES, Lower(splitext(name).ext)) # None}

InQueue(name) == \E i \in 1..Len(event_queue) : event_queue[i] = name

\* a handling in which the listing or a move failed
WatchFault ==
  last.op = "on_created" /\ (last.listing = "failed" \/ last.errors > 0 \/ last.raised)

\* C19: in watch mode a created file whose extension has a category is at
\* the top level no more once its event has been handled without a failure
\* (it is in its category folder if that handling found it at the top
\* level), and every queued event of such a file leads to that, the events being
\* taken from the queue one at a time
C19_CreatedFileEventuallySorted ==
  /\ [](( /\ last.op = "on_created" /\ last.event \in SortableNames /\ ~WatchFault)
          => /\ <<last.event>> \notin DOMAIN files
             /\ last.listing = "ok"
             /\ <<last.event>> \in DOMAIN last.files
                => \E q \in DOMAIN files :
                     /\ Len(q) = 2
                     /\ q[1] = get_category_for_extension(categories,
                                                         Lower(splitext(last.event).ext))
                     /\ files[q].content = last.files[<<last.event>>].content)
  /\ \A name \in SortableNames :
       InQueue(name) ~> (<<name>> \notin DOMAIN files \/ WatchFault)

C19_Witness ==
  /\ last.op = "on_created" /\ last.event = NameA /\ ~WatchFault
  /\ <<NameA>> \in DOMAIN last.files
  /\ <<Videos, NameA>> \in DOMAIN last.files
  /\ <<NameA>> \notin DOMAIN files
  /\ <<Videos, NameA1>> \in DOMAIN files
  /\ event_queue # <<>>

\* C20: handling the creation event of a file leaves every other file of
\* the top level at its path
C20_HandlerSortsOnlyEventFile ==
  last.op = "on_created"
  => \A p \in TopFiles(last.files) :
       p # <<last.event>> => (p \in DOMAIN files /\ files[p] = last.files[p])

\* the in-memory log of the engine that made the last call
CallerLog == IF last.op \in {"other_sort", "other_undo"} THEN other.history ELSE history

InLog(r, log) == \E i \in 1..Len(log) : log[i] = r

\* C21: with two engines on one log file, a save writes the saving engine's
\* own in-memory log over the file: a record the file held before the call
\* is in the file afterwards only if the saving engine holds it, whatever
\* the other engine had persisted
C21_SaveOverwritesOtherEngine ==
  (last.saves = 1 /\ last.saveOk)
  => /\ persisted = CallerLog
     /\ \A i \in 1..Len(last.persisted) :
          ~InLog(last.persisted[i], CallerLog) => ~InLog(last.persisted[i], persisted)

\* the manual pass saves its snapshot and the record the watcher's engine
\* persisted for a file it moved, still at its destination, is gone
C21_Witness ==
  /\ last.op = "other_sort" /\ last.saves = 1 /\ last.saveOk
  /\ \E i \in 1..Len(history) :
       /\ InLog(history[i], last.persisted)
       /\ ~InLog(history[i], persisted)
       /\ history[i].destination \in DOMAIN files
  /\ persisted # <<>>

====
